---- MODULE Spec2Model ----
(***************************************************************************)
(* Boomi process log space analyzer (src/kw/boomi_log_analyzer.py).        *)
(*                                                                         *)
(* The program is a single-threaded batch run: main() loads the process    *)
(* definitions, scans the definition directories, loads the execution      *)
(* history, sums the container logs, reconciles the two feeds in           *)
(* generate_execution_stats and reports.  Every function of the program is *)
(* an operator below, named as in the source; main's steps are the actions *)
(* of Spec.  SpecScan applies get_file_size_recursive to every small path. *)
(***************************************************************************)
EXTENDS Integers, Sequences, FiniteSets, TLC

VARIABLES
    pc,                 \* main's position: "step1" .. "step5", "report", "done"; "scan"/"scanned" in SpecScan
    hash_mod,           \* display name -> hash(name) % 10000 of this interpreter run
    processes_dir,      \* PROCESSES_DIR on disk: [exists, dirs]
    execution_path,      \* EXECUTION_DIR on disk: "missing", "no_history" (no history/ under it) or "ok"
    logs_dir,           \* whether LOGS_DIR exists
    processes,          \* main's local: identifier -> ProcessInfo (insertion-ordered dict)
    process_sizes,      \* main's local: identifier -> definition size (insertion-ordered dict)
    executions,         \* main's local: list of ExecutionInfo
    stats_dict,         \* generate_execution_stats' accumulator after its last loop
    unknown_processes,  \* generate_execution_stats' set of unresolved names
    stats_list,         \* main's local: list of ExecutionStats
    printed,            \* tags of the messages printed so far
    tables,             \* the summary tables printed so far
    csv_file,           \* OUTPUT_CSV on disk
    summary,            \* the SUMMARY block printed at the end of main
    scan_path,          \* SpecScan: the path handed to get_file_size_recursive
    scan_result         \* SpecScan: what the call returned

vars == <<pc, hash_mod, processes_dir, execution_path, logs_dir, processes, process_sizes, executions,
          stats_dict, unknown_processes, stats_list, printed, tables, csv_file,
          summary, scan_path, scan_result>>

\* what main reads and never writes
env == <<hash_mod, processes_dir, execution_path, logs_dir>>

-----------------------------------------------------------------------------
(* Bounds of the model *)

\* longest listing of execution directories under history/
MaxRuns == 2
\* range of hash(name) % 10000, reduced so that distinct names collide
HashRange == 2
\* most entries rglob('*') yields under one path in SpecScan
MaxEntries == 3

(* Program constants *)

TOP_N == 20
BytesPerMB == 1048576

-----------------------------------------------------------------------------
(* Python values *)

\* Python's None
None == [none |-> TRUE]

Max(a, b) == IF a >= b THEN a ELSE b
Min(a, b) == IF a <= b THEN a ELSE b

RECURSIVE SumSeq(_)
SumSeq(s) == IF s = <<>> THEN 0 ELSE Head(s) + SumSeq(Tail(s))

\* An insertion-ordered dict is the sequence of its [key, val] items.
DictKeys(d) == {d[i].key : i \in 1..Len(d)}
DictHas(d, k) == \E i \in 1..Len(d) : d[i].key = k
DictGet(d, k) == d[CHOOSE i \in 1..Len(d) : d[i].key = k].val
\* d[k] = v: an existing key keeps its position, a new key goes last
DictSet(d, k, v) ==
    IF DictHas(d, k)
    THEN [i \in 1..Len(d) |-> IF d[i].key = k THEN [key |-> k, val |-> v] ELSE d[i]]
    ELSE Append(d, [key |-> k, val |-> v])

\* A float number of megabytes: bytes / (1024 * 1024) / per.  Division of an
\* integer below 2^53 by 2^20 is exact in binary floating point.
MBValue(bytes, per) == [bytes |-> bytes, per |-> per]
MBLess(a, b) == a.bytes * b.per < b.bytes * a.per
MBEqual(a, b) == a.bytes * b.per = b.bytes * a.per

-----------------------------------------------------------------------------
(* The data classes *)

ExecutionInfo(execution_id, process_name, process_id, size_bytes) ==
    [execution_id |-> execution_id, process_name |-> process_name,
     process_id |-> process_id, size_bytes |-> size_bytes]

ProcessInfo(process_id, process_name, process_type, folder_name) ==
    [process_id |-> process_id, process_name |-> process_name,
     process_type |-> process_type, folder_name |-> folder_name]

ExecutionStats(process_info, execution_count, total_size_bytes, max_size_bytes) ==
    [process_info |-> process_info, execution_count |-> execution_count,
     total_size_bytes |-> total_size_bytes, max_size_bytes |-> max_size_bytes]

total_size_mb(stats) == MBValue(stats.total_size_bytes, 1)

avg_size_mb(stats) ==
    IF stats.execution_count = 0
    THEN MBValue(0, 1)
    ELSE MBValue(stats.total_size_bytes, stats.execution_count)

max_size_mb(stats) == MBValue(stats.max_size_bytes, 1)

-----------------------------------------------------------------------------
(* Paths on disk *)

\* An entry that rglob('*') yields: a regular file or a directory; access
\* "error" is an entry whose is_file()/stat() raises OSError.
Entry(kind, size, access) == [kind |-> kind, size |-> size, access |-> access]
File(size) == Entry("file", size, "ok")
Subdir == Entry("dir", 0, "ok")
Locked == Entry("file", 0, "error")

AbsentPath == [kind |-> "absent", size |-> 0, entries |-> <<>>]
FilePath(size) == [kind |-> "file", size |-> size, entries |-> <<>>]
DirPath(entries) == [kind |-> "dir", size |-> 0, entries |-> entries]

\* The for loop of get_file_size_recursive from entry i on; the try is around
\* the whole loop, so the first entry that raises ends it.
RECURSIVE WalkEntries(_, _, _)
WalkEntries(entries, i, total_size) ==
    IF i > Len(entries)
    THEN [size |-> total_size, warned |-> FALSE]
    ELSE IF entries[i].access = "error"
    THEN [size |-> total_size, warned |-> TRUE]
    ELSE IF entries[i].kind = "file"
    THEN WalkEntries(entries, i + 1, total_size + entries[i].size)
    ELSE WalkEntries(entries, i + 1, total_size)

\* Returns the size and whether the warning was printed.
get_file_size_recursive(path) ==
    IF path.kind = "absent"
    THEN [size |-> 0, warned |-> FALSE]
    ELSE IF path.kind = "file"
    THEN [size |-> path.size, warned |-> FALSE]
    ELSE WalkEntries(path.entries, 1, 0)

-----------------------------------------------------------------------------
(* The definition feed *)

\* The descriptor <dir>/<dir>.xml of a definition directory: absent, not
\* well-formed, or a document whose Id, Name, Type and FolderId fields are
\* the given texts ("" for an element that is absent or empty).
NoXml == [state |-> "missing", Id |-> "", Name |-> "", Type |-> "", Folder |-> ""]
BadXml == [state |-> "malformed", Id |-> "", Name |-> "", Type |-> "", Folder |-> ""]
Xml(id, name, type, folder) ==
    [state |-> "ok", Id |-> id, Name |-> name, Type |-> type, Folder |-> folder]

\* None on a parse error (after a warning), else the ProcessInfo of the fields.
parse_process_xml(xml) ==
    IF xml.state = "ok"
    THEN ProcessInfo(xml.Id, xml.Name, xml.Type, xml.Folder)
    ELSE None

\* The loop of load_process_mapping over process_dirs from directory i on.
RECURSIVE LoadProcessDirs(_, _, _, _)
LoadProcessDirs(dirs, i, procs, out) ==
    IF i > Len(dirs)
    THEN [processes |-> procs, printed |-> out]
    ELSE LET d == dirs[i]
             process_info == parse_process_xml(d.xml)
         IN  IF d.xml.state = "missing"
             THEN LoadProcessDirs(dirs, i + 1, procs,
                                  out \cup {"Warning: Main XML file not found"})
             ELSE IF process_info = None
             THEN LoadProcessDirs(dirs, i + 1, procs,
                                  out \cup {"Warning: Could not parse process XML"})
             ELSE IF process_info.process_id = ""
             THEN LoadProcessDirs(dirs, i + 1, procs, out)
             ELSE LoadProcessDirs(dirs, i + 1,
                                  DictSet(procs, process_info.process_id, process_info),
                                  out)

\* dir.dirs lists the children of PROCESSES_DIR that are directories with a
\* 36-character name containing '-', in iterdir() order.
load_process_mapping(dir) ==
    IF ~dir.exists
    THEN [processes |-> <<>>, printed |-> {"Warning: Processes directory not found"}]
    ELSE LoadProcessDirs(dir.dirs, 1, <<>>, {})

\* The loop of analyze_process_directories from directory i on.
RECURSIVE ScanProcessDirs(_, _, _, _)
ScanProcessDirs(dirs, i, sizes, out) ==
    IF i > Len(dirs)
    THEN [process_sizes |-> sizes, printed |-> out]
    ELSE LET scan == get_file_size_recursive(dirs[i].tree)
         IN  ScanProcessDirs(dirs, i + 1, DictSet(sizes, dirs[i].name, scan.size),
                             IF scan.warned
                             THEN out \cup {"Warning: Could not access"}
                             ELSE out)

analyze_process_directories(dir) ==
    IF ~dir.exists
    THEN [process_sizes |-> <<>>, printed |-> {"Warning: Processes directory not found"}]
    ELSE ScanProcessDirs(dir.dirs, 1, <<>>, {})

\* Variant of create_process_name_to_id_mapping: a name keeps its first identifier
create_process_name_to_id_mapping_FirstWins(procs) ==
    LET RECURSIVE Build(_, _)
        Build(i, name_to_id) ==
            IF i > Len(procs)
            THEN name_to_id
            ELSE Build(i + 1,
                       IF DictHas(name_to_id, procs[i].val.process_name)
                       THEN name_to_id
                       ELSE DictSet(name_to_id, procs[i].val.process_name, procs[i].key))
    IN  Build(1, <<>>)

create_process_name_to_id_mapping(procs) ==
    LET RECURSIVE Build(_, _)
        Build(i, name_to_id) ==
            IF i > Len(procs)
            THEN name_to_id
            ELSE Build(i + 1, DictSet(name_to_id, procs[i].val.process_name, procs[i].key))
    IN  Build(1, <<>>)

-----------------------------------------------------------------------------
(* The execution feed *)

\* process_log.xml of an execution directory: absent, not well-formed, or a
\* log whose first "Executing Process" message names process_name ("" when no
\* message has the phrase or nothing follows it).
NoLog == [state |-> "missing", process_name |-> ""]
BadLog == [state |-> "malformed", process_name |-> ""]
Log(process_name) == [state |-> "ok", process_name |-> process_name]

\* None, or the ExecutionInfo of the run; the timestamp, which nothing reads
\* after the parse, is left out.
parse_execution_log(execution_id, execution_dir) ==
    IF execution_dir.log.state # "ok" \/ execution_dir.log.process_name = ""
    THEN None
    ELSE ExecutionInfo(execution_id, execution_dir.log.process_name, "",
                       get_file_size_recursive(execution_dir.tree).size)

\* The loop of analyze_execution_history over execution_dirs from i on.
RECURSIVE ParseExecutionDirs(_, _, _, _)
ParseExecutionDirs(dirs, i, execs, out) ==
    IF i > Len(dirs)
    THEN [executions |-> execs, printed |-> out]
    ELSE LET execution_info == parse_execution_log(i, dirs[i])
             scan == get_file_size_recursive(dirs[i].tree)
             out1 == IF dirs[i].log.state = "malformed"
                     THEN out \cup {"Warning: Could not parse execution log"}
                     ELSE out
             out2 == IF execution_info # None /\ scan.warned
                     THEN out1 \cup {"Warning: Could not access"}
                     ELSE out1
         IN  ParseExecutionDirs(dirs, i + 1,
                                IF execution_info # None
                                THEN Append(execs, execution_info)
                                ELSE execs,
                                out2)

\* Variant of analyze_execution_history: history/ is listed without the
\* check that it exists
analyze_execution_history_NoHistoryCheck(root, dirs) ==
    IF root = "missing"
    THEN [executions |-> <<>>, printed |-> {"Warning: Execution directory not found"}]
    ELSE ParseExecutionDirs(dirs, 1, <<>>, {})

\* root is the state of EXECUTION_DIR: "missing", "no_history" or "ok";
\* dirs lists history/**/execution-* directories in rglob order.
analyze_execution_history(root, dirs) ==
    IF root = "missing"
    THEN [executions |-> <<>>, printed |-> {"Warning: Execution directory not found"}]
    ELSE IF root = "no_history"
    THEN [executions |-> <<>>,
          printed |-> {"Warning: Execution history directory not found"}]
    ELSE ParseExecutionDirs(dirs, 1, <<>>, {})

\* exists: whether LOGS_DIR exists.  The total of the *.container.log files is
\* only printed, and the returned dict is never filled.
analyze_container_logs(exists) ==
    IF ~exists
    THEN [log_sizes |-> <<>>, printed |-> {"Warning: Logs directory not found"}]
    ELSE [log_sizes |-> <<>>,
          printed |-> {"Total container log size",
                       "Note: Container logs are not process-specific"}]

-----------------------------------------------------------------------------
(* The reconciliation engine *)

\* f"unknown_process_{n}"
FallbackIdText == <<"unknown_process_0", "unknown_process_1", "unknown_process_2",
                    "unknown_process_3", "unknown_process_4", "unknown_process_5">>
FallbackId(process_name) == FallbackIdText[hash_mod[process_name] + 1]

\* The value the defaultdict makes for a key it does not hold yet
DefaultStats ==
    [process_info |-> None, execution_count |-> 0, total_execution_size |-> 0,
     max_execution_size |-> 0, process_definition_size |-> 0]

\* The identifier an execution is accumulated under and whether it was resolved
ResolveProcessId(name_to_id, process_name) ==
    LET process_id == IF DictHas(name_to_id, process_name)
                      THEN DictGet(name_to_id, process_name)
                      ELSE ""
    IN  IF process_id = ""
        THEN [process_id |-> FallbackId(process_name), unknown |-> TRUE]
        ELSE [process_id |-> process_id, unknown |-> FALSE]

\* Variant of AttachProcessInfo: the placeholder is made anew on every touch
AttachProcessInfo_EveryTouch(procs, process_id, stats, execution) ==
    IF DictHas(procs, process_id)
    THEN DictGet(procs, process_id)
    ELSE ProcessInfo(process_id, execution.process_name, "unknown", "")

\* The process_info of a bucket after one more execution has touched it
AttachProcessInfo(procs, process_id, stats, execution) ==
    IF DictHas(procs, process_id)
    THEN DictGet(procs, process_id)
    ELSE IF stats.process_info = None
    THEN ProcessInfo(process_id, execution.process_name, "unknown", "")
    ELSE stats.process_info

\* One pass of the loop over executions: the bucket of the execution's
\* identifier (made on first touch) takes its count, size and max.
AccumulateExecution(procs, name_to_id, acc, execution) ==
    LET r == ResolveProcessId(name_to_id, execution.process_name)
        old == IF DictHas(acc.stats_dict, r.process_id)
               THEN DictGet(acc.stats_dict, r.process_id)
               ELSE DefaultStats
        new == [process_info |-> AttachProcessInfo(procs, r.process_id, old, execution),
                execution_count |-> old.execution_count + 1,
                total_execution_size |-> old.total_execution_size + execution.size_bytes,
                max_execution_size |-> Max(old.max_execution_size, execution.size_bytes),
                process_definition_size |-> old.process_definition_size]
    IN  [stats_dict |-> DictSet(acc.stats_dict, r.process_id, new),
         unknown_processes |-> IF r.unknown
                               THEN acc.unknown_processes \cup {execution.process_name}
                               ELSE acc.unknown_processes]

RECURSIVE AccumulateExecutions(_, _, _, _, _)
AccumulateExecutions(procs, name_to_id, execs, i, acc) ==
    IF i > Len(execs)
    THEN acc
    ELSE AccumulateExecutions(procs, name_to_id, execs, i + 1,
                              AccumulateExecution(procs, name_to_id, acc, execs[i]))

\* Variant of MergeDefinitionSize: the bucket is replaced whether or not the
\* identifier already has one
MergeDefinitionSize_Replace(procs, sdict, process_id, definition_size) ==
    DictSet(sdict, process_id,
            [process_info |-> IF DictHas(procs, process_id)
                              THEN DictGet(procs, process_id)
                              ELSE ProcessInfo(process_id, "NO_EXECUTIONS_FOUND",
                                               "unknown", ""),
             execution_count |-> 0,
             total_execution_size |-> 0,
             max_execution_size |-> 0,
             process_definition_size |-> definition_size])

\* Variant of MergeDefinitionSize: the definition size also goes into the
\* running execution total
MergeDefinitionSize_IntoExecutionTotal(procs, sdict, process_id, definition_size) ==
    IF DictHas(sdict, process_id)
    THEN DictSet(sdict, process_id,
                 [DictGet(sdict, process_id) EXCEPT
                      !.process_definition_size = definition_size,
                      !.total_execution_size = @ + definition_size])
    ELSE DictSet(sdict, process_id,
                 [process_info |-> IF DictHas(procs, process_id)
                                   THEN DictGet(procs, process_id)
                                   ELSE ProcessInfo(process_id, "NO_EXECUTIONS_FOUND",
                                                    "unknown", ""),
                  execution_count |-> 0,
                  total_execution_size |-> 0,
                  max_execution_size |-> 0,
                  process_definition_size |-> definition_size])

\* One pass of the loop over process_sizes.items()
MergeDefinitionSize(procs, sdict, process_id, definition_size) ==
    IF DictHas(sdict, process_id)
    THEN DictSet(sdict, process_id,
                 [DictGet(sdict, process_id) EXCEPT
                      !.process_definition_size = definition_size])
    ELSE DictSet(sdict, process_id,
                 [process_info |-> IF DictHas(procs, process_id)
                                   THEN DictGet(procs, process_id)
                                   ELSE ProcessInfo(process_id, "NO_EXECUTIONS_FOUND",
                                                    "unknown", ""),
                  execution_count |-> 0,
                  total_execution_size |-> 0,
                  max_execution_size |-> 0,
                  process_definition_size |-> definition_size])

RECURSIVE MergeDefinitionSizes(_, _, _, _)
MergeDefinitionSizes(procs, sizes, i, sdict) ==
    IF i > Len(sizes)
    THEN sdict
    ELSE MergeDefinitionSizes(procs, sizes, i + 1,
                              MergeDefinitionSize(procs, sdict, sizes[i].key, sizes[i].val))

\* Variant of FinalizeStats: the max is the running execution max alone
FinalizeStats_ExecutionMax(stats) ==
    ExecutionStats(stats.process_info,
                   stats.execution_count,
                   stats.total_execution_size + stats.process_definition_size,
                   stats.max_execution_size)

\* The ExecutionStats of one bucket
FinalizeStats(stats) ==
    ExecutionStats(stats.process_info,
                   stats.execution_count,
                   stats.total_execution_size + stats.process_definition_size,
                   Max(stats.max_execution_size, stats.process_definition_size))

\* Variant of EmitsStats: no bucket is skipped
EmitsStats_All(stats) == TRUE

\* Whether the conversion loop emits the bucket
EmitsStats(stats) == stats.execution_count # 0

RECURSIVE ConvertStats(_, _, _)
ConvertStats(sdict, i, out) ==
    IF i > Len(sdict)
    THEN out
    ELSE ConvertStats(sdict, i + 1,
                      IF EmitsStats(sdict[i].val)
                      THEN Append(out, FinalizeStats(sdict[i].val))
                      ELSE out)

generate_execution_stats(procs, sizes, execs) ==
    LET name_to_id == create_process_name_to_id_mapping(procs)
        acc == AccumulateExecutions(procs, name_to_id, execs, 1,
                                    [stats_dict |-> <<>>, unknown_processes |-> {}])
        sdict == MergeDefinitionSizes(procs, sizes, 1, acc.stats_dict)
    IN  [stats_list |-> ConvertStats(sdict, 1, <<>>),
         stats_dict |-> sdict,
         unknown_processes |-> acc.unknown_processes,
         printed |-> IF acc.unknown_processes # {}
                     THEN {"Warning: Found processes with unknown IDs"}
                     ELSE {}]

-----------------------------------------------------------------------------
(* Reporting *)

\* The sort keys of main: whether a's key is greater than b's
KeyGreater(key, a, b) ==
    IF key = "total_size_bytes"
    THEN a.total_size_bytes > b.total_size_bytes
    ELSE MBLess(avg_size_mb(b), avg_size_mb(a))

\* x put into a descending list after the items whose key is not smaller
RECURSIVE InsertSorted(_, _, _)
InsertSorted(key, sorted, x) ==
    IF sorted = <<>>
    THEN <<x>>
    ELSE IF KeyGreater(key, x, Head(sorted))
    THEN <<x>> \o sorted
    ELSE <<Head(sorted)>> \o InsertSorted(key, Tail(sorted), x)

\* sorted(list, key=..., reverse=True): descending, and stable
RECURSIVE SortedDescending(_, _)
SortedDescending(key, list) ==
    IF list = <<>>
    THEN <<>>
    ELSE InsertSorted(key, SortedDescending(key, SubSeq(list, 1, Len(list) - 1)),
                      list[Len(list)])

\* The table print_summary_table prints: its title and its first top_n rows
print_summary_table(list, title, top_n) ==
    [title |-> title,
     rows |-> SubSeq(list, 1, Min(top_n, Len(list))),
     of |-> Len(list)]

\* hasattr(stats, name): ExecutionStats has the four fields of the dataclass
hasattr(stats, name) == name \in DOMAIN stats

\* One data row of the CSV
CsvRow(stats) ==
    LET separated == hasattr(stats, "process_definition_size_mb")
        definition_size_mb == IF separated
                              THEN stats.process_definition_size_mb
                              ELSE MBValue(0, 1)
        execution_size_mb == IF separated
                             THEN MBValue(total_size_mb(stats).bytes
                                              - definition_size_mb.bytes, 1)
                             ELSE total_size_mb(stats)
    IN  [process_name |-> stats.process_info.process_name,
         process_id |-> stats.process_info.process_id,
         process_type |-> stats.process_info.process_type,
         folder_path |-> stats.process_info.folder_name,
         execution_count |-> stats.execution_count,
         total_size_bytes |-> stats.total_size_bytes,
         total_size_mb |-> total_size_mb(stats),
         average_size_mb |-> avg_size_mb(stats),
         max_size_mb |-> max_size_mb(stats),
         definition_size_mb |-> definition_size_mb,
         execution_size_mb |-> execution_size_mb]

\* The file write_csv_report leaves: opened with 'w', so a new file
write_csv_report(list) ==
    [exists |-> TRUE, written |-> TRUE, rows |-> [i \in 1..Len(list) |-> CsvRow(list[i])]]

-----------------------------------------------------------------------------
(* What the run can find on disk *)

SeqsUpTo(S, n) == UNION {[1..k -> S] : k \in 0..n}

\* names of definition directories (36-character identifiers)
DirNames == {"A1", "B2"}
\* texts of the Id element: identifiers the platform assigns, none of the
\* form unknown_process_<n>; "" for a descriptor without one
XmlIds == DirNames \cup {""}
\* display names of definitions
DefNames == {"Invoice Sync", "Order Load"}
\* process names found in execution logs
ExecNames == {"Invoice Sync", "Order Load", "Unknown Flow"}

XmlChoices ==
    {NoXml, BadXml} \cup {Xml(id, name, "process", "Finance") : id \in XmlIds, name \in DefNames}

\* a definition directory holding 1000 bytes
DefTrees == {DirPath(<<File(600), Subdir, File(400)>>)}

ProcessDir(name, xml, tree) == [name |-> name, xml |-> xml, tree |-> tree]

ProcessDirChoices ==
    {ProcessDir(name, xml, tree) : name \in DirNames, xml \in XmlChoices, tree \in DefTrees}

\* iterdir() lists each directory once, in any order
ProcessDirListings ==
    {l \in SeqsUpTo(ProcessDirChoices, Cardinality(DirNames)) :
        \A i, j \in 1..Len(l) : i # j => l[i].name # l[j].name}

ProcessesDirChoices ==
    {[exists |-> FALSE, dirs |-> <<>>]}
        \cup {[exists |-> TRUE, dirs |-> l] : l \in ProcessDirListings}

\* execution directories of 500 and of 2000 readable bytes
RunTrees == {DirPath(<<File(500)>>), DirPath(<<File(2000), Locked, File(700)>>)}

ExecutionDir(log, tree) == [log |-> log, tree |-> tree]

ExecutionDirChoices ==
    {ExecutionDir(Log(name), tree) : name \in ExecNames, tree \in RunTrees}
        \cup {ExecutionDir(NoLog, DirPath(<<>>)), ExecutionDir(Log(""), DirPath(<<File(500)>>))}

ExecutionDirListings == SeqsUpTo(ExecutionDirChoices, MaxRuns)

\* OUTPUT_CSV before the run: absent, or left by an earlier run
NoCsv == [exists |-> FALSE, written |-> FALSE, rows |-> <<>>]
OldCsv == [exists |-> TRUE, written |-> FALSE, rows |-> <<>>]

NoSummary == [processes |-> 0, executions |-> 0, combined_size |-> 0, history_size |-> 0]

\* paths handed to get_file_size_recursive in SpecScan
EntryChoices == {File(100), File(250), Subdir, Locked}
ScanPaths ==
    {AbsentPath, FilePath(100)} \cup {DirPath(l) : l \in SeqsUpTo(EntryChoices, MaxEntries)}

-----------------------------------------------------------------------------
(* main *)

Init ==
    /\ pc = "step1"
    /\ hash_mod \in [ExecNames -> 0..(HashRange - 1)]
    /\ processes_dir \in ProcessesDirChoices
    /\ execution_path \in {"missing", "no_history", "ok"}
    /\ logs_dir \in BOOLEAN
    /\ processes = <<>>
    /\ process_sizes = <<>>
    /\ executions = <<>>
    /\ stats_dict = <<>>
    /\ unknown_processes = {}
    /\ stats_list = <<>>
    /\ printed = {}
    /\ tables = <<>>
    /\ csv_file \in {NoCsv, OldCsv}
    /\ summary = NoSummary
    /\ scan_path = AbsentPath
    /\ scan_result = None

\* Step 1: processes = load_process_mapping()
Step1_LoadProcessMapping ==
    /\ pc = "step1"
    /\ LET r == load_process_mapping(processes_dir)
       IN  /\ processes' = r.processes
           /\ printed' = printed \cup r.printed
    /\ pc' = "step2"
    /\ UNCHANGED <<env, process_sizes, executions, stats_dict,
                   unknown_processes, stats_list, tables, csv_file, summary,
                   scan_path, scan_result>>

\* Step 2: process_sizes = analyze_process_directories()
Step2_AnalyzeProcessDirectories ==
    /\ pc = "step2"
    /\ LET r == analyze_process_directories(processes_dir)
       IN  /\ process_sizes' = r.process_sizes
           /\ printed' = printed \cup r.printed
    /\ pc' = "step3"
    /\ UNCHANGED <<env, processes, executions, stats_dict,
                   unknown_processes, stats_list, tables, csv_file, summary,
                   scan_path, scan_result>>

\* Step 3: executions = analyze_execution_history()
Step3_AnalyzeExecutionHistory ==
    /\ pc = "step3"
    /\ \E dirs \in IF execution_path = "ok" THEN ExecutionDirListings ELSE {<<>>} :
          LET r == analyze_execution_history(execution_path, dirs)
          IN  /\ executions' = r.executions
              /\ printed' = printed \cup r.printed
    /\ pc' = "step4"
    /\ UNCHANGED <<env, processes, process_sizes, stats_dict,
                   unknown_processes, stats_list, tables, csv_file, summary,
                   scan_path, scan_result>>

\* Step 4: analyze_container_logs(), whose result main drops
Step4_AnalyzeContainerLogs ==
    /\ pc = "step4"
    /\ printed' = printed \cup analyze_container_logs(logs_dir).printed
    /\ pc' = "step5"
    /\ UNCHANGED <<env, processes, process_sizes, executions,
                   stats_dict, unknown_processes, stats_list, tables, csv_file,
                   summary, scan_path, scan_result>>

\* Variant of Step5_GenerateExecutionStats: main goes on to the report with
\* an empty list
Step5_NoEarlyReturn ==
    /\ pc = "step5"
    /\ LET r == generate_execution_stats(processes, process_sizes, executions)
       IN  /\ stats_list' = r.stats_list
           /\ stats_dict' = r.stats_dict
           /\ unknown_processes' = r.unknown_processes
           /\ printed' = printed \cup r.printed
           /\ pc' = "report"
    /\ UNCHANGED <<env, processes, process_sizes, executions,
                   tables, csv_file, summary, scan_path, scan_result>>

\* Step 5: stats_list = generate_execution_stats(...), then the early return
\* of main when the list is empty
Step5_GenerateExecutionStats ==
    /\ pc = "step5"
    /\ LET r == generate_execution_stats(processes, process_sizes, executions)
       IN  /\ stats_list' = r.stats_list
           /\ stats_dict' = r.stats_dict
           /\ unknown_processes' = r.unknown_processes
           /\ IF r.stats_list = <<>>
              THEN /\ printed' = printed \cup r.printed \cup {"No execution data found"}
                   /\ pc' = "done"
              ELSE /\ printed' = printed \cup r.printed
                   /\ pc' = "report"
    /\ UNCHANGED <<env, processes, process_sizes, executions,
                   tables, csv_file, summary, scan_path, scan_result>>

\* The rest of main: both tables, the CSV file and the summary
Report ==
    /\ pc = "report"
    /\ LET stats_by_total == SortedDescending("total_size_bytes", stats_list)
           stats_by_avg == SortedDescending("avg_size_mb", stats_list)
       IN  /\ tables' = <<print_summary_table(stats_by_total,
                              "TOP PROCESSES BY TOTAL EXECUTION SIZE", TOP_N),
                          print_summary_table(stats_by_avg,
                              "TOP PROCESSES BY AVERAGE EXECUTION SIZE", TOP_N)>>
           /\ csv_file' = write_csv_report(stats_by_total)
    /\ summary' =
          [processes |-> Len(stats_list),
           executions |-> SumSeq([i \in 1..Len(stats_list) |-> stats_list[i].execution_count]),
           combined_size |-> SumSeq([i \in 1..Len(stats_list) |-> stats_list[i].total_size_bytes]),
           history_size |-> SumSeq([i \in 1..Len(executions) |-> executions[i].size_bytes])]
    /\ printed' = printed \cup {"SUMMARY"}
    /\ pc' = "done"
    /\ UNCHANGED <<env, processes, process_sizes, executions,
                   stats_dict, unknown_processes, stats_list, scan_path, scan_result>>

Next ==
    \/ Step1_LoadProcessMapping
    \/ Step2_AnalyzeProcessDirectories
    \/ Step3_AnalyzeExecutionHistory
    \/ Step4_AnalyzeContainerLogs
    \/ Step5_GenerateExecutionStats
    \/ Report

Spec == Init /\ [][Next]_vars

-----------------------------------------------------------------------------
(* get_file_size_recursive on its own *)

InitScan ==
    /\ pc = "scan"
    /\ hash_mod = [n \in ExecNames |-> 0]
    /\ processes_dir = [exists |-> FALSE, dirs |-> <<>>]
    /\ execution_path = "missing"
    /\ logs_dir = FALSE
    /\ processes = <<>>
    /\ process_sizes = <<>>
    /\ executions = <<>>
    /\ stats_dict = <<>>
    /\ unknown_processes = {}
    /\ stats_list = <<>>
    /\ printed = {}
    /\ tables = <<>>
    /\ csv_file = NoCsv
    /\ summary = NoSummary
    /\ scan_path \in ScanPaths
    /\ scan_result = None

ScanCall ==
    /\ pc = "scan"
    /\ scan_result' = get_file_size_recursive(scan_path)
    /\ pc' = "scanned"
    /\ UNCHANGED <<env, processes, process_sizes, executions,
                   stats_dict, unknown_processes, stats_list, printed, tables,
                   csv_file, summary, scan_path>>

NextScan == ScanCall

SpecScan == InitScan /\ [][NextScan]_vars

-----------------------------------------------------------------------------
(* Vocabulary of the properties *)

\* generate_execution_stats has returned
StatsReady == pc \in {"report", "done"}

RECURSIVE SumOver(_, _)
SumOver(f, I) ==
    IF I = {} THEN 0 ELSE LET i == CHOOSE j \in I : TRUE IN f[i] + SumOver(f, I \ {i})

\* the largest f[i] for i in I, 0 for no i
MaxOver(f, I) ==
    IF I = {} THEN 0 ELSE f[CHOOSE i \in I : \A j \in I : f[j] <= f[i]]

ExecutionSizes == [i \in 1..Len(executions) |-> executions[i].size_bytes]

\* some definition has the display name
NameIsIndexed(name) == \E i \in 1..Len(processes) : processes[i].val.process_name = name

\* the identifier of the last definition, in the mapping's order, with the name
LaterIdNamed(name) ==
    processes[CHOOSE i \in 1..Len(processes) :
                 /\ processes[i].val.process_name = name
                 /\ \A j \in (i + 1)..Len(processes) :
                        processes[j].val.process_name # name].key

\* the identifier an execution with this name belongs to
BucketOf(name) == IF NameIsIndexed(name) THEN LaterIdNamed(name) ELSE FallbackId(name)

ExecutionsNamed(name) == {i \in 1..Len(executions) : executions[i].process_name = name}
ExecutionsIn(id) == {i \in 1..Len(executions) : BucketOf(executions[i].process_name) = id}
RecordsFor(id) == {i \in 1..Len(stats_list) : stats_list[i].process_info.process_id = id}

\* the size of the definition directory named id, 0 when there is none
DefinitionSizeOf(id) == IF DictHas(process_sizes, id) THEN DictGet(process_sizes, id) ELSE 0

-----------------------------------------------------------------------------
(* Properties of the reconciliation engine *)

\* C1: every record returned by generate_execution_stats has
\* execution_count >= 1, and a definition that has a definition size but no
\* execution resolving to its identifier has no record in the output.
C1_NoZeroExecutionRecord ==
    StatsReady =>
        /\ \A i \in 1..Len(stats_list) : stats_list[i].execution_count >= 1
        /\ \A k \in 1..Len(process_sizes) :
               ExecutionsIn(process_sizes[k].key) = {}
                   => RecordsFor(process_sizes[k].key) = {}

\* C1 witness: records were emitted while a sized definition had no execution
C1_Witness ==
    /\ StatsReady
    /\ stats_list # <<>>
    /\ \E k \in 1..Len(process_sizes) :
           /\ process_sizes[k].val > 0
           /\ ExecutionsIn(process_sizes[k].key) = {}
           /\ DictHas(stats_dict, process_sizes[k].key)

\* C2: the k >= 1 executions whose display name resolves to a known
\* identifier give exactly one record for that identifier, with
\* execution_count = k and total_size_bytes = the sum of the k execution
\* sizes plus the identifier's definition size once (0 if it has none).
C2_OneMergedRecordPerResolvedName ==
    StatsReady =>
        \A name \in {executions[i].process_name : i \in 1..Len(executions)} :
            NameIsIndexed(name) =>
                LET id == LaterIdNamed(name)
                IN  /\ Cardinality(RecordsFor(id)) = 1
                    /\ \A r \in RecordsFor(id) :
                           /\ stats_list[r].execution_count
                                  = Cardinality(ExecutionsNamed(name))
                           /\ stats_list[r].total_size_bytes
                                  = SumOver(ExecutionSizes, ExecutionsNamed(name))
                                        + DefinitionSizeOf(id)

\* C2 witness: two executions of one known process that has a definition size
C2_Witness ==
    /\ StatsReady
    /\ \E name \in ExecNames :
           /\ NameIsIndexed(name)
           /\ Cardinality(ExecutionsNamed(name)) = 2
           /\ DefinitionSizeOf(LaterIdNamed(name)) > 0
           /\ RecordsFor(LaterIdNamed(name)) # {}

\* C3: every record's max_size_bytes is the maximum of the largest single
\* execution size accumulated in its bucket and the bucket's definition size.
C3_MaxIsLargestExecutionOrDefinition ==
    StatsReady =>
        \A r \in 1..Len(stats_list) :
            LET id == stats_list[r].process_info.process_id
            IN  stats_list[r].max_size_bytes
                    = Max(MaxOver(ExecutionSizes, ExecutionsIn(id)), DefinitionSizeOf(id))

\* C3 witness: one record whose definition is larger than each of its
\* executions, and one without a definition, in the same output
C3_Witness ==
    /\ StatsReady
    /\ \E r \in 1..Len(stats_list) :
           LET id == stats_list[r].process_info.process_id
           IN  /\ ExecutionsIn(id) # {}
               /\ DefinitionSizeOf(id) > MaxOver(ExecutionSizes, ExecutionsIn(id))
    /\ \E r \in 1..Len(stats_list) :
           LET id == stats_list[r].process_info.process_id
           IN  /\ ExecutionsIn(id) # {}
               /\ DefinitionSizeOf(id) = 0
               /\ stats_list[r].process_info.process_type = "unknown"

\* the first execution, in list order, accumulated under the identifier
FirstExecutionIn(id) ==
    executions[CHOOSE i \in ExecutionsIn(id) : \A j \in ExecutionsIn(id) : i <= j]

\* C4 as stated: an execution whose display name is not in the index is
\* accumulated in a bucket of type "unknown" that carries that display name,
\* all executions with that name fall under the one fallback identifier and
\* give a single record, and the name is in the unknown-names set.
C4_UnknownBucketCarriesItsName ==
    StatsReady =>
        \A e \in 1..Len(executions) :
            LET name == executions[e].process_name
                id == FallbackId(name)
            IN  ~NameIsIndexed(name) =>
                    /\ Cardinality(RecordsFor(id)) = 1
                    /\ \A r \in RecordsFor(id) :
                           /\ stats_list[r].process_info.process_type = "unknown"
                           /\ stats_list[r].process_info.process_name = name
                           /\ stats_list[r].execution_count
                                  >= Cardinality(ExecutionsNamed(name))
                    /\ name \in unknown_processes

\* C4 as amended: the bucket carries the display name of the first execution
\* accumulated under the fallback identifier, which is the execution's own
\* name unless another unresolved name with the same fallback identifier
\* came earlier in the list; the rest is as stated.
C4_UnknownBucketCarriesFirstName ==
    StatsReady =>
        \A e \in 1..Len(executions) :
            LET name == executions[e].process_name
                id == FallbackId(name)
            IN  ~NameIsIndexed(name) =>
                    /\ Cardinality(RecordsFor(id)) = 1
                    /\ \A r \in RecordsFor(id) :
                           /\ stats_list[r].process_info.process_type = "unknown"
                           /\ stats_list[r].process_info.process_name
                                  = FirstExecutionIn(id).process_name
                           /\ stats_list[r].execution_count
                                  = Cardinality(ExecutionsIn(id))
                           /\ stats_list[r].execution_count
                                  >= Cardinality(ExecutionsNamed(name))
                    /\ name \in unknown_processes

\* C4 witness: two executions with different unresolved names that have the
\* same fallback identifier
C4_Witness ==
    /\ StatsReady
    /\ \E i, j \in 1..Len(executions) :
           /\ i < j
           /\ executions[i].process_name # executions[j].process_name
           /\ ~NameIsIndexed(executions[i].process_name)
           /\ ~NameIsIndexed(executions[j].process_name)
           /\ FallbackId(executions[i].process_name) = FallbackId(executions[j].process_name)
           /\ RecordsFor(FallbackId(executions[j].process_name)) # {}

-----------------------------------------------------------------------------
(* Properties of the size scanner *)

\* the sizes of the accessible regular files under a path
AccessibleFileSizes(path) ==
    [i \in 1..Len(path.entries) |->
        IF path.entries[i].kind = "file" /\ path.entries[i].access = "ok"
        THEN path.entries[i].size
        ELSE 0]

\* C5: an entry that cannot be accessed is skipped with a warning and the walk
\* continues, so the size returned for a directory is the sum of the sizes of
\* all accessible regular files under it, those after the failing entry
\* included.
C5_ScanSumsAllAccessibleFiles ==
    (pc = "scanned" /\ scan_path.kind = "dir") =>
        /\ scan_result.size = SumSeq(AccessibleFileSizes(scan_path))
        /\ scan_result.warned
               <=> \E i \in 1..Len(scan_path.entries) : scan_path.entries[i].access = "error"

-----------------------------------------------------------------------------
(* Properties of the report *)

\* C6: every CSV row's definition-size component is the definition size
\* merged into the process's bucket, its execution-size component is the sum
\* of the process's execution sizes, and the two add up to the row's total.
C6_CsvSeparatesDefinitionAndExecutionSize ==
    csv_file.written =>
        \A i \in 1..Len(csv_file.rows) :
            LET row == csv_file.rows[i]
                bucket == DictGet(stats_dict, row.process_id)
            IN  /\ MBEqual(row.definition_size_mb,
                           MBValue(bucket.process_definition_size, 1))
                /\ MBEqual(row.execution_size_mb,
                           MBValue(bucket.total_execution_size, 1))
                /\ row.definition_size_mb.bytes + row.execution_size_mb.bytes
                       = row.total_size_bytes

\* C7: the tables, the CSV file and the summary are written only by the
\* report after generate_execution_stats has returned a list that is not
\* empty; when the list is empty main prints its message and ends, no table
\* is printed and the CSV file stays as it was.
C7_ReportOnlyAfterReconciliation ==
    [][/\ (tables' # tables \/ csv_file' # csv_file \/ summary' # summary)
              => /\ pc = "report"
                 /\ stats_list # <<>>
                 /\ stats_list
                        = generate_execution_stats(processes, process_sizes,
                                                   executions).stats_list
       /\ (pc = "step5" /\ stats_list' = <<>>)
              => /\ pc' = "done"
                 /\ "No execution data found" \in printed'
                 /\ tables' = <<>>
                 /\ csv_file' = csv_file
       /\ pc = "done" => vars' = vars]_vars

\* C7 witness: main has ended on an empty list with definitions loaded and a
\* CSV file of an earlier run on disk
C7_Witness ==
    /\ pc = "done"
    /\ stats_list = <<>>
    /\ process_sizes # <<>>
    /\ "No execution data found" \in printed
    /\ tables = <<>>
    /\ csv_file = OldCsv

-----------------------------------------------------------------------------
(* Properties of the loaders *)

\* C8: a root directory that does not exist makes its loader return an empty
\* dataset after a warning, and main goes on: each of the four loading steps
\* is followed by the next, up to the reconciliation.
C8_MissingRootIsNotFatal ==
    /\ (~processes_dir.exists /\ pc \notin {"step1"})
           => /\ processes = <<>>
              /\ "Warning: Processes directory not found" \in printed
    /\ (~processes_dir.exists /\ pc \notin {"step1", "step2"})
           => process_sizes = <<>>
    /\ (execution_path = "missing" /\ pc \notin {"step1", "step2", "step3"})
           => /\ executions = <<>>
              /\ "Warning: Execution directory not found" \in printed
    /\ (execution_path = "no_history" /\ pc \notin {"step1", "step2", "step3"})
           => /\ executions = <<>>
              /\ "Warning: Execution history directory not found" \in printed
    /\ (~logs_dir /\ pc \notin {"step1", "step2", "step3", "step4"})
           => /\ analyze_container_logs(logs_dir).log_sizes = <<>>
              /\ "Warning: Logs directory not found" \in printed
    /\ pc \in {"step1", "step2", "step3", "step4"}
           => ENABLED (\/ Step1_LoadProcessMapping
                       \/ Step2_AnalyzeProcessDirectories
                       \/ Step3_AnalyzeExecutionHistory
                       \/ Step4_AnalyzeContainerLogs)

\* C8 witness: the reconciliation has run with none of the three roots on disk
C8_Witness ==
    /\ ~processes_dir.exists
    /\ execution_path = "missing"
    /\ ~logs_dir
    /\ StatsReady

-----------------------------------------------------------------------------
(* Properties of the name index *)

\* C9: when two identifiers share a display name, the index maps the name to
\* the later one; all executions with that name are accumulated under the
\* later identifier, and the earlier one has no record in the output.
C9_LaterIdentifierTakesSharedName ==
    StatsReady =>
        \A i, j \in 1..Len(processes) :
            (i < j /\ processes[i].val.process_name = processes[j].val.process_name)
                => LET name == processes[j].val.process_name
                       later == LaterIdNamed(name)
                   IN  /\ later # processes[i].key
                       /\ DictGet(create_process_name_to_id_mapping(processes), name)
                              = later
                       /\ RecordsFor(processes[i].key) = {}
                       /\ ExecutionsNamed(name) # {}
                              => \E r \in RecordsFor(later) :
                                     stats_list[r].execution_count
                                         = Cardinality(ExecutionsNamed(name))

\* C9 witness: two sized definitions share the name of an execution
C9_Witness ==
    /\ StatsReady
    /\ \E i, j \in 1..Len(processes) :
           /\ i < j
           /\ processes[i].val.process_name = processes[j].val.process_name
           /\ ExecutionsNamed(processes[i].val.process_name) # {}
           /\ DictHas(process_sizes, processes[i].key)
           /\ DictHas(process_sizes, processes[j].key)

\* C10: the execution counts of the returned records add up to the number of
\* executions passed in, and so does the summary's count of executions.
C10_ExecutionCountIsConserved ==
    /\ StatsReady
           => SumOver([r \in 1..Len(stats_list) |-> stats_list[r].execution_count],
                      1..Len(stats_list))
                  = Len(executions)
    /\ (pc = "done" /\ stats_list # <<>>) => summary.executions = Len(executions)

\* C10 witness: main has ended on two executions with different unresolved
\* names that collapsed into one record, with definitions on disk
C10_Witness ==
    /\ pc = "done"
    /\ Len(executions) = 2
    /\ Len(stats_list) = 1
    /\ executions[1].process_name # executions[2].process_name
    /\ ~NameIsIndexed(executions[1].process_name)
    /\ ~NameIsIndexed(executions[2].process_name)
    /\ process_sizes # <<>>

-----------------------------------------------------------------------------
(* Properties of the two definition feeds *)

\* directory p of the listing has a descriptor that load_process_mapping
\* stores under the identifier
StoresUnder(p, id) ==
    /\ processes_dir.dirs[p].xml.state = "ok"
    /\ processes_dir.dirs[p].xml.Id = id

\* the place in the listing of the directory whose ProcessInfo the mapping
\* holds under the identifier: the last one stored under it
OwnDirectoryOf(id) ==
    CHOOSE p \in 1..Len(processes_dir.dirs) :
        /\ StoresUnder(p, id)
        /\ \A q \in (p + 1)..Len(processes_dir.dirs) : ~StoresUnder(q, id)

\* C11: every identifier under which load_process_mapping stores a
\* ProcessInfo is the key under which analyze_process_directories stores the
\* size of that definition's directory, and for every record of a process
\* resolved through the index the definition size merged into its bucket is
\* the size of its own directory.
C11_DefinitionFeedsShareKeys ==
    /\ pc \notin {"step1", "step2"}
           => \A i \in 1..Len(processes) :
                  LET p == OwnDirectoryOf(processes[i].key)
                  IN  /\ process_sizes[p].key = processes[i].key
                      /\ process_sizes[p].val
                             = get_file_size_recursive(processes_dir.dirs[p].tree).size
    /\ StatsReady
           => \A r \in 1..Len(stats_list) :
                  LET id == stats_list[r].process_info.process_id
                  IN  DictHas(processes, id)
                          => DictGet(stats_dict, id).process_definition_size
                                 = get_file_size_recursive(
                                       processes_dir.dirs[OwnDirectoryOf(id)].tree).size

====
